---- MODULE Spec2Model ----
(***************************************************************************)
(* Model of pbreports/io/align.py: the record crunching loop of            *)
(* alignment_info_from_bam, the movie-indexed table construction of        *)
(* CrunchedAlignments._numpify with its accessors, and _getPct.            *)
(***************************************************************************)
EXTENDS Integers, Sequences, FiniteSets, TLC

(* ------------------------------ bounds --------------------------------- *)
\* number of records of the container that the reader yields
MaxRecords == 3
\* hole numbers 1..MaxHole
MaxHole == 2
\* length of the movie-name collection handed to CrunchedAlignments
MaxMovies == 2
\* number of entries of the read-span mapping handed to CrunchedAlignments
MaxReads == 2
\* number of entries of the subread-row mapping handed to CrunchedAlignments
MaxSubreads == 2
\* _getPct: every vector of 1..MaxPctLen values out of 1..MaxPctValue ...
MaxPctLen == 4
MaxPctValue == 4
\* ... and the vectors n, n-1, .., 1 up to this length
MaxLongLen == 25

(* --------------------------- input domains ----------------------------- *)
\* movie names that occur in the container
MovieNames == {"m1", "m2"}
\* movie names a caller may ask for ("m3" never occurs in the container)
TargetNames == MovieNames \cup {"m3"}
Holes == 1..MaxHole
\* (qStart, qEnd) pairs; <<-1, -1>> is the "unclipped" pair
QuerySpans == {<<-1, -1>>, <<0, 100>>}
\* (aStart, aEnd) pairs, aStart <= aEnd as the reader delivers them
RefSpans == {<<0, 100>>, <<100000, 100150>>}
Identities == {1}
ReadQuals == {0}

AlignmentRecords ==
    [MovieName : MovieNames, holeNumber : Holes, q : QuerySpans,
     a : RefSpans, identity : Identities, readQual : ReadQuals]

(* ----------------------------- helpers --------------------------------- *)
None == <<>>
EmptyMap == [k \in {} |-> 0]

min(a, b) == IF a < b THEN a ELSE b
max(a, b) == IF a > b THEN a ELSE b

\* d[k] = v, as a dict assignment
Put(d, k, v) == [x \in DOMAIN d \cup {k} |-> IF x = k THEN v ELSE d[x]]

(* ------------------- alignment_info_from_bam: pieces ------------------- *)
\* the filler written as modStart
ModStart == 99999
\* the initial interval of unrolled.setdefault
SentinelStart == 99999
SentinelEnd == 0

EffectiveQuery_M(r) ==
    IF r.q = <<-1, -1>> THEN <<0, r.a[2]>> ELSE r.q
\* qs, qe after the (-1, -1) fallback
EffectiveQuery(r) ==
    IF r.q = <<-1, -1>> THEN <<0, r.a[2] - r.a[1]>> ELSE r.q

zmw_id_of(r) == <<r.MovieName, r.holeNumber>>

subread_id_of(r) ==
    <<r.MovieName, r.holeNumber, EffectiveQuery(r)[1], EffectiveQuery(r)[2]>>

subread_length_of(r) == r.a[2] - r.a[1]

isFirst_M(zmw_id, last) == 1
isFirst(zmw_id, last) == IF zmw_id # last THEN 1 ELSE 0

\* this_a as a tuple
this_a(r, last) ==
    <<subread_length_of(r), r.identity, r.readQual,
      isFirst(zmw_id_of(r), last), ModStart>>

AddMovieName_M(names, current, target) ==
    IF current = target THEN names \cup {current} ELSE names
AddMovieName(names, current, target) == names \cup {current}

StoreRow_M(d, sid, row) == IF sid \in DOMAIN d THEN d ELSE Put(d, sid, row)
StoreRow(d, sid, row) == Put(d, sid, row)

UpdateMaxSubread_M(ms, zid, sid, len) ==
    IF zid \notin DOMAIN ms \/ len >= ms[zid][2]
    THEN Put(ms, zid, <<sid, len>>) ELSE ms
UpdateMaxSubread(ms, zid, sid, len) ==
    IF zid \notin DOMAIN ms \/ len > ms[zid][2]
    THEN Put(ms, zid, <<sid, len>>) ELSE ms

UpdateUnrolled_M(u, zid, rstart, rend) ==
    LET prev == IF zid \in DOMAIN u THEN u[zid]
                ELSE <<SentinelStart, SentinelEnd>>
    IN  Put(u, zid, <<max(prev[1], rstart), min(prev[2], rend)>>)
UpdateUnrolled(u, zid, rstart, rend) ==
    LET prev == IF zid \in DOMAIN u THEN u[zid]
                ELSE <<SentinelStart, SentinelEnd>>
    IN  Put(u, zid, <<min(prev[1], rstart), max(prev[2], rend)>>)

(* --------------------- CrunchedAlignments: pieces ---------------------- *)
\* the column names of from_alignment_file
Columns == <<"Length", "Accuracy", "Read quality", "isFirst", "modStart">>
\* column lists a caller may pass: the five names, or only four of them
ColumnLists == {Columns, SubSeq(Columns, 1, 4)}

\* keys and values of the mappings handed to the constructor
BuildZmwIds == {<<"m1", 1>>, <<"m1", 2>>, <<"m2", 1>>}
BuildSubreadIds == {<<z[1], z[2], 0, 100>> : z \in BuildZmwIds}
BuildSpans == {<<0, 100>>, <<0, 150>>}
BuildRows == {<<100, 1, 0, 1, ModStart>>, <<150, 1, 0, 0, ModStart>>,
              <<100, 1, 0, 1>>}

\* a dict as the sequence of its (key, value) items in iteration order
Dicts(Keys, Values, n) ==
    {d \in UNION {[1..k -> Keys \X Values] : k \in 0..n} :
        \A i, j \in 1..Len(d) : i # j => d[i][1] # d[j][1]}

\* the movie-name collection in the order it is iterated
NameLists == UNION {[1..k -> MovieNames] : k \in 0..MaxMovies}

MovieIdx(name) == [name |-> name, rOffs |-> 0, rLen |-> 0, sOffs |-> 0, sLen |-> 0]

\* [v[1] - v[0] for k, v in reads.iteritems() if k[0] == name]
ReadLengthsOf_M(d, name) ==
    LET sel == SelectSeq(d, LAMBDA e : e[1][1] # name)
    IN  [i \in 1..Len(sel) |-> sel[i][2][2] - sel[i][2][1]]
ReadLengthsOf(d, name) ==
    LET sel == SelectSeq(d, LAMBDA e : e[1][1] = name)
    IN  [i \in 1..Len(sel) |-> sel[i][2][2] - sel[i][2][1]]

\* [v for k, v in subreads.iteritems() if k[0] == name]
SubreadRowsOf(d, name) ==
    LET sel == SelectSeq(d, LAMBDA e : e[1][1] = name)
    IN  [i \in 1..Len(sel) |-> sel[i][2]]

\* rOffs = rOffs + m.rLen, sOffs = sOffs + m.sLen
NextOffs_M(offs, len) == offs
NextOffs(offs, len) == offs + len

\* len(sl[0]) != len(self._cols)
WidthMismatch_M(rows, columns) == Len(rows[Len(rows)]) # Len(columns)
WidthMismatch(rows, columns) == Len(rows[1]) # Len(columns)

\* np.array(sl, dtype=[(col, np.float64) for col in cols]) accepts the rows
\* only when each of them has one value per column
ArrayAccepts(rows, columns) ==
    \A i \in 1..Len(rows) : Len(rows[i]) = Len(columns)

NoError == "none"
IndexErrorEmpty == "IndexError: list index out of range"
IndexErrorWidth == "IndexError: Length of sl len of columns is incompatible."
ValueErrorArray == "ValueError"

(* ------------------------------ _getPct -------------------------------- *)
Percentiles == 0..100

Descending(n) == [i \in 1..n |-> n + 1 - i]

PctVectors ==
    UNION {[1..n -> 1..MaxPctValue] : n \in 1..MaxPctLen}
        \cup {Descending(n) : n \in (MaxPctLen + 1)..MaxLongLen}

\* np.sort(vector): ascending order
RECURSIVE InsertSorted(_, _)
InsertSorted(sorted, v) ==
    IF sorted = <<>> THEN <<v>>
    ELSE IF v <= Head(sorted) THEN <<v>> \o sorted
    ELSE <<Head(sorted)>> \o InsertSorted(Tail(sorted), v)

RECURSIVE np_sort(_)
np_sort(vector) ==
    IF vector = <<>> THEN <<>>
    ELSE InsertSorted(np_sort(Tail(vector)), Head(vector))

\* The index is computed in double precision: percentile / 100.0 is the
\* double nearest to p/100, its product with the length is rounded to a
\* double again, and np.ceil is taken of that.  With s the number of
\* doublings that bring p to 100 or more, the 53-bit significand of the
\* quotient is the integer nearest to p * 2^(52+s) / 100, so the quotient is
\* p/100 + r / (100 * 2^(52+s)) with r = QuotientError(p), -50 < r < 50.
RECURSIVE Doublings(_, _)
Doublings(p, s) == IF p * 2^s >= 100 THEN s ELSE Doublings(p, s + 1)

RECURSIVE Pow2Mod100(_)
Pow2Mod100(e) == IF e = 0 THEN 1 ELSE (2 * Pow2Mod100(e - 1)) % 100

QuotientError(p) ==
    LET t == (p * Pow2Mod100(52 + Doublings(p, 0))) % 100
    IN  IF t = 0 THEN 0 ELSE IF t < 50 THEN 0 - t ELSE 100 - t

RECURSIVE Log2Floor(_)
Log2Floor(k) == IF k < 2 THEN 0 ELSE 1 + Log2Floor(k \div 2)

\* np.ceil((percentile / 100.0) * n).  When p * n / 100 is not an integer
\* the rounding errors are far smaller than its distance to the next
\* integer.  When it is an integer k, the product is k + r * n / (100 *
\* 2^(52+s)); it is rounded to the double above k, and the ceiling is k + 1,
\* when that excess is more than half of the spacing 2^(Log2Floor(k) - 52)
\* of the doubles above k.
CeilIndex(p, n) ==
    IF p = 0 THEN 0
    ELSE IF (p * n) % 100 # 0 THEN (p * n + 99) \div 100
    ELSE LET k == (p * n) \div 100
             s == Doublings(p, 0)
             r == QuotientError(p)
         IN  IF r > 0 /\ r * n > 100 * 2^(Log2Floor(k) + s - 1)
             THEN k + 1 ELSE k

getPct(p, values) ==
    LET sorted_vector == np_sort(values)
        index == CeilIndex(p, Len(sorted_vector))
    IN  IF index >= Len(sorted_vector)
        THEN sorted_vector[Len(sorted_vector)]
        ELSE sorted_vector[index + 1]

(* ------------------------------- state --------------------------------- *)
VARIABLES
    bam,            \* the records the reader has yielded so far, in order
    movie_name,     \* the target movie
    datum,          \* subread_id -> row
    unrolled,       \* zmw_id -> <<start, end>>
    max_subread,    \* zmw_id -> <<subread_id, length>>
    movie_names,    \* set of movie names seen
    last_zmw_id,    \* zmw_id of the previous target-movie record, or None
    warned,         \* subread ids passed to warnings.warn, in order
    pc,             \* "loop" while scanning, "done" after the return
    mnames,         \* self._movieNames, in iteration order
    reads,          \* self._reads, its items in iteration order
    subreads,       \* self._subreads, its items in iteration order
    cols,           \* self._cols
    movies,         \* self._movies, a list of MovieIdx
    rOffs, sOffs,   \* running offsets of _numpify
    rl, sl,         \* read list and subread list of _numpify
    nReads,         \* self._nReads, None until built
    nSubreads,      \* self._nSubreads, None until built
    raised,         \* the exception the constructor ended with
    bpc,            \* "loop" in the loop of _numpify, then "built" or "raised"
    percentile,     \* first argument of _getPct
    vector,         \* second argument of _getPct
    pct,            \* the value _getPct returned, None before
    ppc             \* "call" before _getPct ran, "returned" after

cvars == <<bam, movie_name, datum, unrolled, max_subread, movie_names,
           last_zmw_id, warned, pc>>
bvars == <<mnames, reads, subreads, cols, movies, rOffs, sOffs, rl, sl,
           nReads, nSubreads, raised, bpc>>
pvars == <<percentile, vector, pct, ppc>>
vars == <<cvars, bvars, pvars>>

\* no call of _getPct
PctIdle ==
    percentile = 0 /\ vector = <<>> /\ pct = None /\ ppc = "idle"

\* no CrunchedAlignments under construction
BuilderIdle ==
    /\ mnames = <<>> /\ reads = <<>> /\ subreads = <<>> /\ cols = <<>>
    /\ movies = <<>> /\ rOffs = 0 /\ sOffs = 0 /\ rl = <<>> /\ sl = <<>>
    /\ nReads = None /\ nSubreads = None /\ raised = NoError
    /\ bpc = "idle"

\* no scan of a container running
CrunchIdle ==
    /\ bam = <<>> /\ movie_name = "m1" /\ datum = EmptyMap
    /\ unrolled = EmptyMap /\ max_subread = EmptyMap /\ movie_names = {}
    /\ last_zmw_id = None /\ warned = <<>> /\ pc = "idle"

(* ------------------------ alignment_info_from_bam ---------------------- *)
Init ==
    /\ bam = <<>>
    /\ movie_name \in TargetNames
    /\ datum = EmptyMap
    /\ unrolled = EmptyMap
    /\ max_subread = EmptyMap
    /\ movie_names = {}
    /\ last_zmw_id = None
    /\ warned = <<>>
    /\ pc = "loop"
    /\ BuilderIdle
    /\ PctIdle

SkipRecord_M ==
    /\ pc = "loop"
    /\ Len(bam) < MaxRecords
    /\ \E r \in AlignmentRecords :
        /\ movie_name # r.MovieName
        /\ bam' = Append(bam, r)
        /\ movie_names' = AddMovieName(movie_names, r.MovieName, movie_name)
        /\ last_zmw_id' = zmw_id_of(r)
        /\ datum' = StoreRow(datum, subread_id_of(r), this_a(r, last_zmw_id))
        /\ max_subread' = UpdateMaxSubread(max_subread, zmw_id_of(r),
                                           subread_id_of(r),
                                           subread_length_of(r))
        /\ unrolled' = UpdateUnrolled(unrolled, zmw_id_of(r), r.a[1], r.a[2])
    /\ UNCHANGED <<movie_name, warned, pc, bvars, pvars>>

SkipRecord_R ==
    /\ pc = "loop"
    /\ Len(bam) < MaxRecords
    /\ \E r \in AlignmentRecords :
        /\ movie_name # r.MovieName
        /\ bam' = Append(bam, r)
        /\ movie_names' = AddMovieName(movie_names, r.MovieName, movie_name)
    /\ last_zmw_id' = None
    /\ UNCHANGED <<movie_name, datum, unrolled, max_subread, warned, pc,
                   bvars, pvars>>

\* one loop iteration on a record of another movie (the `continue`)
SkipRecord ==
    /\ pc = "loop"
    /\ Len(bam) < MaxRecords
    /\ \E r \in AlignmentRecords :
        /\ movie_name # r.MovieName
        /\ bam' = Append(bam, r)
        /\ movie_names' = AddMovieName(movie_names, r.MovieName, movie_name)
    /\ UNCHANGED <<movie_name, datum, unrolled, max_subread, last_zmw_id,
                   warned, pc, bvars, pvars>>

\* one loop iteration on a record of the target movie
CrunchRecord ==
    /\ pc = "loop"
    /\ Len(bam) < MaxRecords
    /\ \E r \in AlignmentRecords :
        LET zmw_id == zmw_id_of(r)
            subread_id == subread_id_of(r)
            subread_length == subread_length_of(r)
        IN  /\ movie_name = r.MovieName
            /\ bam' = Append(bam, r)
            /\ movie_names' = AddMovieName(movie_names, r.MovieName, movie_name)
            /\ last_zmw_id' = zmw_id
            /\ warned' = IF subread_id \in DOMAIN datum
                         THEN Append(warned, subread_id) ELSE warned
            /\ datum' = StoreRow(datum, subread_id, this_a(r, last_zmw_id))
            /\ max_subread' = UpdateMaxSubread(max_subread, zmw_id,
                                               subread_id, subread_length)
            /\ unrolled' = UpdateUnrolled(unrolled, zmw_id, r.a[1], r.a[2])
    /\ UNCHANGED <<movie_name, pc, bvars, pvars>>

\* the reader is exhausted: return datum, unrolled, max_subread, movie_names
Return ==
    /\ pc = "loop"
    /\ pc' = "done"
    /\ UNCHANGED <<bam, movie_name, datum, unrolled, max_subread,
                   movie_names, last_zmw_id, warned, bvars, pvars>>

Next == SkipRecord \/ CrunchRecord \/ Return

Spec == Init /\ [][Next]_vars

(* -------------------------- CrunchedAlignments ------------------------- *)
\* __init__ up to the call of _numpify, for any arguments
InitBuild ==
    /\ CrunchIdle
    /\ PctIdle
    /\ mnames \in NameLists
    /\ reads \in Dicts(BuildZmwIds, BuildSpans, MaxReads)
    /\ subreads \in Dicts(BuildSubreadIds, BuildRows, MaxSubreads)
    /\ cols \in ColumnLists
    /\ movies = <<>>
    /\ rOffs = 0 /\ sOffs = 0
    /\ rl = <<>> /\ sl = <<>>
    /\ nReads = None /\ nSubreads = None
    /\ raised = NoError
    /\ bpc = "loop"

\* one iteration of `for name in self._movieNames`
NumpifyMovie ==
    /\ bpc = "loop"
    /\ Len(movies) < Len(mnames)
    /\ LET name == mnames[Len(movies) + 1]
           lr == ReadLengthsOf(reads, name)
           ls == SubreadRowsOf(subreads, name)
           m == [MovieIdx(name) EXCEPT !.rOffs = rOffs, !.rLen = Len(lr),
                                       !.sOffs = sOffs, !.sLen = Len(ls)]
       IN  /\ rOffs' = NextOffs(rOffs, m.rLen)
           /\ rl' = rl \o lr
           /\ sOffs' = NextOffs(sOffs, m.sLen)
           /\ sl' = sl \o ls
           /\ movies' = Append(movies, m)
    /\ UNCHANGED <<cvars, pvars, mnames, reads, subreads, cols, nReads, nSubreads,
                   raised, bpc>>

\* after the loop: the read array, the width check, the subread array
NumpifyArrays ==
    /\ bpc = "loop"
    /\ Len(movies) = Len(mnames)
    /\ nReads' = rl
    /\ IF sl = <<>>
       THEN /\ raised' = IndexErrorEmpty
            /\ bpc' = "raised"
            /\ UNCHANGED nSubreads
       ELSE IF WidthMismatch(sl, cols)
       THEN /\ raised' = IndexErrorWidth
            /\ bpc' = "raised"
            /\ UNCHANGED nSubreads
       ELSE IF ~ArrayAccepts(sl, cols)
       THEN /\ raised' = ValueErrorArray
            /\ bpc' = "raised"
            /\ UNCHANGED nSubreads
       ELSE /\ nSubreads' = sl
            /\ bpc' = "built"
            /\ UNCHANGED raised
    /\ UNCHANGED <<cvars, pvars, mnames, reads, subreads, cols, movies, rOffs,
                   sOffs, rl, sl>>

NextBuild == NumpifyMovie \/ NumpifyArrays

SpecBuild == InitBuild /\ [][NextBuild]_vars

(* ------------------- CrunchedAlignments: accessors --------------------- *)
reads_by_movie_M(movie) ==
    SubSeq(nReads, movie.rOffs + 1, movie.rLen)
\* reads(movie): self._nReads[movie.rOffs : movie.rOffs + movie.rLen]
reads_by_movie(movie) ==
    SubSeq(nReads, movie.rOffs + 1, movie.rOffs + movie.rLen)

\* subreads(movie): self._nSubreads[movie.sOffs : movie.sOffs + movie.sLen]
subreads_by_movie(movie) ==
    SubSeq(nSubreads, movie.sOffs + 1, movie.sOffs + movie.sLen)

(* ------------------------------ _getPct -------------------------------- *)
InitPct ==
    /\ CrunchIdle
    /\ BuilderIdle
    /\ percentile \in Percentiles
    /\ vector \in PctVectors
    /\ pct = None
    /\ ppc = "call"

GetPct ==
    /\ ppc = "call"
    /\ pct' = getPct(percentile, vector)
    /\ ppc' = "returned"
    /\ UNCHANGED <<cvars, bvars, percentile, vector>>

NextPct == GetPct

SpecPct == InitPct /\ [][NextPct]_vars

(* ------------- from_alignment_file, then CrunchedAlignments ------------ *)
\* the iteration orders a set or the items of a dict can come in
Orderings(S) ==
    {o \in [1..Cardinality(S) -> S] :
        \A i, j \in 1..Cardinality(S) : i # j => o[i] # o[j]}

Items(d) == {<<k, d[k]>> : k \in DOMAIN d}

\* from_alignment_file returns (movie_names, unrolled, datum, columns) and
\* the caller passes them on as CrunchedAlignments(mnames, reads, subreads,
\* cols), whose __init__ runs up to the call of _numpify
FromAlignmentFile ==
    /\ pc = "done"
    /\ bpc = "idle"
    /\ pc' = "returned"
    /\ mnames' \in Orderings(movie_names)
    /\ reads' \in Orderings(Items(unrolled))
    /\ subreads' \in Orderings(Items(datum))
    /\ cols' = Columns
    /\ bpc' = "loop"
    /\ UNCHANGED <<bam, movie_name, datum, unrolled, max_subread,
                   movie_names, last_zmw_id, warned, movies, rOffs, sOffs,
                   rl, sl, nReads, nSubreads, raised, pvars>>

\* the run for a movie name that no record of the container carries; no
\* iteration of the scan takes the branch of CrunchRecord then
InitAbsent == Init /\ movie_name \notin MovieNames

NextAbsent ==
    SkipRecord \/ Return \/ FromAlignmentFile \/ NumpifyMovie \/ NumpifyArrays

SpecAbsent == InitAbsent /\ [][NextAbsent]_vars

(* -------------------- the scanned prefix, as history -------------------- *)
\* indices of the target-movie records yielded so far
TargetIdx == {i \in 1..Len(bam) : bam[i].MovieName = movie_name}

SetMax(S) == CHOOSE x \in S : \A y \in S : y <= x
SetMin(S) == CHOOSE x \in S : \A y \in S : x <= y

\* isFirst as the stream defines it for the record at index i
StreamIsFirst(i) ==
    LET before == {j \in TargetIdx : j < i}
    IN  IF before = {} THEN 1
        ELSE IF zmw_id_of(bam[i]) # zmw_id_of(bam[SetMax(before)]) THEN 1
        ELSE 0

\* index of the latest target-movie record that produced subread id sid
LatestWith(sid) == SetMax({i \in TargetIdx : subread_id_of(bam[i]) = sid})

\* target-movie records whose subread id was produced by an earlier one
Overwriting ==
    {i \in TargetIdx :
        \E j \in TargetIdx : j < i /\ subread_id_of(bam[j]) = subread_id_of(bam[i])}

RECURSIVE StreamWarned(_)
StreamWarned(n) ==
    IF n = 0 THEN <<>>
    ELSE IF n \in Overwriting
         THEN Append(StreamWarned(n - 1), subread_id_of(bam[n]))
         ELSE StreamWarned(n - 1)

\* target-movie records of one ZMW
OfZmw(z) == {i \in TargetIdx : zmw_id_of(bam[i]) = z}

(* ------------------------------ claims --------------------------------- *)
\* C1: the row built for a target-movie record has isFirst = 1 exactly when
\* its ZmwId differs from the ZmwId of the preceding target-movie record
\* (or there is none), whatever records of other movies lie in between.
C1_IsFirst ==
    \A i \in TargetIdx :
        LET sid == subread_id_of(bam[i])
        IN  i = LatestWith(sid) =>
                /\ sid \in DOMAIN datum
                /\ datum[sid][4] = StreamIsFirst(i)

\* ZmwId sequence [A, A, B] with three distinct subread ids: 1, 0, 1
C1_Witness ==
    /\ Len(bam) = 3
    /\ TargetIdx = {1, 2, 3}
    /\ zmw_id_of(bam[1]) = zmw_id_of(bam[2])
    /\ zmw_id_of(bam[2]) # zmw_id_of(bam[3])
    /\ Cardinality(DOMAIN datum) = 3
    /\ datum[subread_id_of(bam[1])][4] = 1
    /\ datum[subread_id_of(bam[2])][4] = 0
    /\ datum[subread_id_of(bam[3])][4] = 1

\* C2: datum holds, for every subread id, the row of the latest record that
\* produced it; every target-movie record is stored (a duplicate does not
\* stop the scan); warnings.warn is called once for each record whose
\* subread id was already present and for no other record.
C2_LatestWriteWins ==
    /\ DOMAIN datum = {subread_id_of(bam[i]) : i \in TargetIdx}
    /\ \A sid \in DOMAIN datum :
        LET r == bam[LatestWith(sid)]
        IN  /\ datum[sid][1] = r.a[2] - r.a[1]
            /\ datum[sid][2] = r.identity
            /\ datum[sid][3] = r.readQual
            /\ datum[sid][4] = StreamIsFirst(LatestWith(sid))
    /\ warned = StreamWarned(Len(bam))

\* same subread id with lengths 100 then 150, then one more record stored
C2_Witness ==
    /\ Len(bam) = 3
    /\ TargetIdx = {1, 2, 3}
    /\ subread_id_of(bam[1]) = subread_id_of(bam[2])
    /\ subread_id_of(bam[3]) # subread_id_of(bam[2])
    /\ subread_length_of(bam[1]) = 100
    /\ subread_length_of(bam[2]) = 150
    /\ datum[subread_id_of(bam[2])][1] = 150
    /\ subread_id_of(bam[3]) \in DOMAIN datum
    /\ Len(warned) = 1

\* C3: movie_names is the set of movie names of all records of the
\* container, whatever the target movie is.
C3_AllMovieNames ==
    movie_names = {bam[i].MovieName : i \in 1..Len(bam)}

\* a finished scan for a movie that is not in the container
C3_Witness ==
    /\ pc = "done"
    /\ movie_name \notin movie_names
    /\ movie_names = MovieNames
    /\ datum = EmptyMap

\* C4: on return, every span of unrolled is [min aStart, max aEnd] over the
\* target-movie records of that ZMW.
C4_SpanIsMinMax ==
    pc = "done" =>
        \A z \in DOMAIN unrolled :
            unrolled[z] = <<SetMin({bam[i].a[1] : i \in OfZmw(z)}),
                            SetMax({bam[i].a[2] : i \in OfZmw(z)})>>

\* C5: every span of unrolled has start <= end, after every record.
C5_SpanOrdered ==
    \A z \in DOMAIN unrolled : unrolled[z][1] <= unrolled[z][2]

\* a span widened by a second record of the same ZMW
C5_Witness ==
    \E z \in DOMAIN unrolled :
        /\ Cardinality(OfZmw(z)) >= 2
        /\ \A i \in OfZmw(z) : unrolled[z] # <<bam[i].a[1], bam[i].a[2]>>
        /\ unrolled[z][1] <= unrolled[z][2]

\* C6: max_subread holds, for every ZMW seen, the subread id and length of
\* the longest target-movie record of that ZMW, the first of them in stream
\* order when several have that length.
C6_LongestFirstSeen ==
    /\ DOMAIN max_subread = {zmw_id_of(bam[i]) : i \in TargetIdx}
    /\ \A z \in DOMAIN max_subread :
        LET longest == SetMax({subread_length_of(bam[i]) : i \in OfZmw(z)})
            first == SetMin({i \in OfZmw(z) :
                                subread_length_of(bam[i]) = longest})
        IN  max_subread[z] = <<subread_id_of(bam[first]), longest>>

\* two records of one ZMW tied for the greatest length, different ids
C6_Witness ==
    \E z \in DOMAIN max_subread : \E i, j \in OfZmw(z) :
        /\ i < j
        /\ subread_length_of(bam[i]) = subread_length_of(bam[j])
        /\ subread_id_of(bam[i]) # subread_id_of(bam[j])
        /\ \A k \in OfZmw(z) :
             subread_length_of(bam[k]) <= subread_length_of(bam[i])
        /\ max_subread[z][1] = subread_id_of(bam[i])

(* ----------------------- claims on the table -------------------------- *)
RECURSIVE SumRLen(_)
SumRLen(ms) == IF ms = <<>> THEN 0 ELSE ms[1].rLen + SumRLen(Tail(ms))

RECURSIVE SumSLen(_)
SumSLen(ms) == IF ms = <<>> THEN 0 ELSE ms[1].sLen + SumSLen(Tail(ms))

\* how often a movie name occurs in the movie-name collection
Occurrences(name) == Cardinality({i \in 1..Len(mnames) : mnames[i] = name})

\* the items of a mapping, each counted once per occurrence of its movie
RECURSIVE CountByName(_)
CountByName(d) ==
    IF d = <<>> THEN 0 ELSE Occurrences(d[1][1][1]) + CountByName(Tail(d))

\* every movie carried by a key of the mapping is named exactly once
NamedOnce(d) == \A i \in 1..Len(d) : Occurrences(d[i][1][1]) = 1

\* C7 as stated: the sum of rLen is the number of distinct ZmwIds of the
\* read-span mapping, the sum of sLen the number of distinct SubreadIds of
\* the subread-row mapping, and both are the lengths of the full arrays.
C7_SumsCountKeys ==
    bpc = "built" =>
        /\ SumRLen(movies) = Len(reads)
        /\ SumSLen(movies) = Len(subreads)
        /\ SumRLen(movies) = Len(nReads)
        /\ SumSLen(movies) = Len(nSubreads)

\* C7 amended: the sums are the lengths of the full arrays and count every
\* key once per occurrence of its movie name in the movie-name collection;
\* they are the numbers of distinct ZmwIds and SubreadIds when every movie
\* carried by a key is named exactly once.
C7_SumsCountNamedKeys ==
    bpc = "built" =>
        /\ SumRLen(movies) = Len(nReads)
        /\ SumSLen(movies) = Len(nSubreads)
        /\ SumRLen(movies) = CountByName(reads)
        /\ SumSLen(movies) = CountByName(subreads)
        /\ NamedOnce(reads) => SumRLen(movies) = Len(reads)
        /\ NamedOnce(subreads) => SumSLen(movies) = Len(subreads)

\* a table of two movies, each with a read and a subread
C7_Witness ==
    /\ bpc = "built"
    /\ Len(movies) = 2
    /\ NamedOnce(reads) /\ NamedOnce(subreads)
    /\ movies[1].rLen = 1 /\ movies[2].rLen = 1
    /\ movies[1].sLen = 1 /\ movies[2].sLen = 1
    /\ Len(nReads) = 2 /\ Len(nSubreads) = 2

\* C8: the MovieIdx entries follow the iteration order of the movie-name
\* collection; the first has offsets 0 and every later one starts, in both
\* arrays, where the previous one ends.
C8_ContiguousOffsets ==
    bpc = "built" =>
        /\ Len(movies) = Len(mnames)
        /\ \A i \in 1..Len(movies) :
            /\ movies[i].name = mnames[i]
            /\ i = 1 => movies[i].rOffs = 0 /\ movies[i].sOffs = 0
            /\ i > 1 =>
                /\ movies[i].rOffs = movies[i-1].rOffs + movies[i-1].rLen
                /\ movies[i].sOffs = movies[i-1].sOffs + movies[i-1].sLen

\* a second movie that starts behind a non-empty first one in both arrays
C8_Witness ==
    /\ bpc = "built"
    /\ Len(movies) = 2
    /\ movies[1].name # movies[2].name
    /\ movies[2].rOffs > 0
    /\ movies[2].sOffs > 0

\* C9: when the first appended subread row is not as wide as the column
\* list, construction ends in the IndexError of the width check and no
\* subread array is made; when it is as wide, no IndexError is raised.
C9_WidthCheck ==
    (bpc \in {"built", "raised"} /\ sl # <<>>) =>
        /\ Len(sl[1]) # Len(cols) =>
            /\ bpc = "raised"
            /\ raised = IndexErrorWidth
            /\ nSubreads = None
        /\ Len(sl[1]) = Len(cols) =>
            raised \notin {IndexErrorWidth, IndexErrorEmpty}

\* five column names, a first row of width 4
C9_Witness ==
    /\ bpc = "raised"
    /\ raised = IndexErrorWidth
    /\ Len(cols) = 5
    /\ sl # <<>>
    /\ Len(sl[1]) = 4

\* C10: with no matching movie the constructor returns a table with an
\* empty read array, an empty subread array and an empty movie-index list.
C10_EmptyTable ==
    (bpc \in {"built", "raised"} /\ rl = <<>> /\ sl = <<>>) =>
        /\ bpc = "built"
        /\ raised = NoError
        /\ nReads = <<>>
        /\ nSubreads = <<>>
        /\ movies = <<>>

(* --------------------- claims on the whole run ------------------------- *)
\* C11: when no record of the container carries the target movie name, the
\* run of from_alignment_file followed by the construction of a
\* CrunchedAlignments ends in an exception and never in a table.
C11_AbsentMovieNoTable ==
    movie_name \notin {bam[i].MovieName : i \in 1..Len(bam)} =>
        /\ bpc # "built"
        /\ nSubreads = None
        /\ bpc = "raised" => raised = IndexErrorEmpty

\* a container of two movies scanned to its end for a third one, both
\* movies indexed, and the constructor ended in the exception
C11_Witness ==
    /\ pc = "returned"
    /\ movie_name \notin movie_names
    /\ movie_names = MovieNames
    /\ Len(movies) = 2
    /\ bpc = "raised"

(* ------------------------- claims on _getPct --------------------------- *)
\* the value at 0-based position i of the values in ascending order
AscendingAt(values, i) ==
    CHOOSE v \in {values[j] : j \in 1..Len(values)} :
        /\ Cardinality({j \in 1..Len(values) : values[j] < v}) <= i
        /\ i < Cardinality({j \in 1..Len(values) : values[j] <= v})

\* C12: _getPct(p, values) is the value at index ceil(p/100 * N) of the
\* ascending values, or the largest value when that index is N or more.
C12_NearestRank ==
    ppc = "returned" =>
        LET N == Len(vector)
            index == (percentile * N + 99) \div 100
        IN  pct = IF index >= N THEN AscendingAt(vector, N - 1)
                  ELSE AscendingAt(vector, index)

(* ---------------------- claims on the key sets ------------------------- *)
\* the SubreadId of a record, with (0, aEnd - aStart) for the unclipped pair
StreamSubreadId(r) ==
    IF r.q = <<-1, -1>>
    THEN <<r.MovieName, r.holeNumber, 0, r.a[2] - r.a[1]>>
    ELSE <<r.MovieName, r.holeNumber, r.q[1], r.q[2]>>

StreamZmwId(r) == <<r.MovieName, r.holeNumber>>

\* C13: on return the keys of datum are exactly the SubreadIds of the
\* target-movie records, the keys of unrolled and of max_subread are exactly
\* their ZmwIds, and every key carries the target movie.
C13_KeySets ==
    pc = "done" =>
        /\ DOMAIN datum = {StreamSubreadId(bam[i]) : i \in TargetIdx}
        /\ DOMAIN unrolled = {StreamZmwId(bam[i]) : i \in TargetIdx}
        /\ DOMAIN max_subread = {StreamZmwId(bam[i]) : i \in TargetIdx}
        /\ \A k \in DOMAIN datum \cup DOMAIN unrolled \cup DOMAIN max_subread :
             k[1] = movie_name

\* a finished scan with an unclipped target-movie record that starts above
\* 0, a clipped one and a record of another movie
C13_Witness ==
    /\ pc = "done"
    /\ \E i, j \in TargetIdx :
        /\ bam[i].q = <<-1, -1>> /\ bam[i].a[1] > 0
        /\ bam[j].q # <<-1, -1>>
        /\ StreamSubreadId(bam[i]) \in DOMAIN datum
        /\ StreamSubreadId(bam[j]) \in DOMAIN datum
    /\ \E i \in 1..Len(bam) : i \notin TargetIdx

\* C14: a loop iteration on a record of another movie adds the record's
\* movie name to movie_names and leaves datum, unrolled, max_subread and
\* last_zmw_id as they were.
C14_SkipFrame ==
    [][(/\ Len(bam') = Len(bam) + 1
        /\ bam'[Len(bam')].MovieName # movie_name)
         => /\ datum' = datum
            /\ unrolled' = unrolled
            /\ max_subread' = max_subread
            /\ last_zmw_id' = last_zmw_id
            /\ movie_names' = movie_names \cup {bam'[Len(bam')].MovieName}]_vars

\* a record of another movie was scanned right after a target-movie record
C14_Witness ==
    /\ Len(bam) >= 2
    /\ bam[Len(bam)].MovieName # movie_name
    /\ bam[Len(bam) - 1].MovieName = movie_name
    /\ last_zmw_id = StreamZmwId(bam[Len(bam) - 1])
    /\ DOMAIN datum = {StreamSubreadId(bam[i]) : i \in TargetIdx}
    /\ bam[Len(bam)].MovieName \in movie_names

(* ---------------------- claims on the slices --------------------------- *)
Count(seq, v) == Cardinality({j \in 1..Len(seq) : seq[j] = v})

Range(seq) == {seq[j] : j \in 1..Len(seq)}

\* the span lengths of the read-span items of one movie
SpanLengthsOf(name) ==
    [j \in {j \in 1..Len(reads) : reads[j][1][1] = name} |->
        reads[j][2][2] - reads[j][2][1]]

\* the rows of the subread-row items of one movie
RowsOf(name) ==
    [j \in {j \in 1..Len(subreads) : subreads[j][1][1] = name} |->
        subreads[j][2]]

CountIn(f, v) == Cardinality({j \in DOMAIN f : f[j] = v})

\* C15: in a table built from a movie-name collection without repeated
\* names, reads(m) holds one value end - start for each read-span item of
\* movie m.name and nothing else, and subreads(m) holds one row for each
\* subread-row item of movie m.name and nothing else.
C15_SlicesByMovie ==
    (/\ bpc = "built"
     /\ \A i, j \in 1..Len(mnames) : i # j => mnames[i] # mnames[j]) =>
        \A i \in 1..Len(movies) :
            LET m == movies[i]
                rs == reads_by_movie(m)
                ss == subreads_by_movie(m)
                er == SpanLengthsOf(m.name)
                es == RowsOf(m.name)
            IN  /\ Len(rs) = Cardinality(DOMAIN er)
                /\ \A v \in Range(rs) \cup {er[j] : j \in DOMAIN er} :
                     Count(rs, v) = CountIn(er, v)
                /\ Len(ss) = Cardinality(DOMAIN es)
                /\ \A v \in Range(ss) \cup {es[j] : j \in DOMAIN es} :
                     Count(ss, v) = CountIn(es, v)

\* two movies with different reads and different subread rows
C15_Witness ==
    /\ bpc = "built"
    /\ Len(movies) = 2
    /\ movies[1].name # movies[2].name
    /\ movies[1].rLen = 1 /\ movies[2].rLen = 1
    /\ movies[1].sLen = 1 /\ movies[2].sLen = 1
    /\ reads_by_movie(movies[1]) # reads_by_movie(movies[2])
    /\ subreads_by_movie(movies[1]) # subreads_by_movie(movies[2])

====
